---- MODULE Spec2Model ----
(***************************************************************************)
(* Persistent agent state engine: src/nibr/canvas/scripts/                 *)
(* persistent_agent.py (ToolSerializationEngine, PersistentA1,             *)
(* GlobalAgentManager).                                                    *)
(*                                                                         *)
(* Spec      : one agent id, container handlers, one handler per step      *)
(* SpecClone : two agent ids, the registered containers and clone_agent    *)
(* SpecReg   : two agent ids, the registry handlers and callers' handles   *)
(* SpecCrash : one caller, handlers split at their file-system steps, the  *)
(*             process may crash between any two steps                     *)
(* SpecGet   : two callers running get_agent concurrently                  *)
(* SpecAdd   : two callers running add_tool / add_data concurrently        *)
(* SpecExt   : one agent id, add_tool / add_data / add_software with the   *)
(*             installation of the software references                     *)
(* SpecSum   : two agent ids, the registry with get_agent_summary and      *)
(*             cleanup_unused_agents                                       *)
(* SpecSer   : the serialization engine alone, applied to callables and    *)
(*             to stored records                                           *)
(* SpecImp   : two agent ids, export_state and import_state between them   *)
(* SpecMgr   : the registry from its first construction on                 *)
(* SpecHand  : two agent ids, get_agent, create_agent with overwrite and   *)
(*             cleanup_unused_agents with the callers' handles             *)
(* SpecProv  : one agent id, the add handlers with a provider whose        *)
(*             registration call may raise                                 *)
(* SpecSave  : one agent id, the documents save_state writes at the        *)
(*             readings of the clock                                       *)
(***************************************************************************)
EXTENDS Integers, FiniteSets, TLC

\* ------------------------------------------------------------------ bounds

\* Container objects one process can hold at a time (live or only
\* referenced by a caller's handle).
MaxObjs == 2

\* Distinct callables (name and code) of one kind the serializer is given.
MaxVer == 3

\* Distinct readings of the clock while the containers are saved.
MaxClock == 2

\* Largest max_idle_hours passed to cleanup_unused_agents.
MaxIdleHours == 1

\* ---------------------------------------------------------------- universes

AgentIds == {"A", "B"}
NoAgent == "none"

ToolNames == {"x", "z"}
DataKeys == {"d1", "d2"}

\* A callable is [ver, kind]: ver stands for its name and code (what it
\* computes), kind for how it behaves under serialize_function:
\*   dill    - dill.dumps succeeds, annotations are JSON values; also what
\*             dill.loads and exec() give back in a later process
\*   annot   - dill.dumps succeeds, __annotations__ holds type objects
\*   closure - a nested def reading a variable of its enclosing function:
\*             dill.dumps succeeds, inspect.getsource gives the indented def
\*   source  - dill.dumps raises, getsource gives a top-level def that reads
\*             nothing outside itself
\*   nested  - dill.dumps raises, getsource gives an indented (nested) def
\*   global  - dill.dumps raises, getsource gives a top-level def that reads
\*             names of its module (imports, module variables)
\*   meta    - dill.dumps raises and inspect.getsource raises
\*   unbound - a function made by exec() of a def whose module names are not
\*             there: calling it raises NameError
\* NoFunc is the None that deserialize_function returns.
NoFunc == [ver |-> 0, kind |-> "none"]

\* deserialize_function does not return: an exception that is no Exception
\* (SystemExit, KeyboardInterrupt) passes its "except Exception".
Raised == [ver |-> 0, kind |-> "raised"]

\* ------------------------------------------------------------------- dicts

EmptyMap == [k \in {} |-> 0]

\* dict.update(n) / d[k] = v
Update(m, n) ==
    [k \in (DOMAIN m) \cup (DOMAIN n) |-> IF k \in DOMAIN n THEN n[k] ELSE m[k]]

\* del d[k]
Del(m, k) == [j \in (DOMAIN m) \ {k} |-> m[j]]

Single(k, v) == [j \in {k} |-> v]

\* ------------------------------------------------- ToolSerializationEngine

\* dill.dumps(func) returns (TRUE) or raises (FALSE).
DillDumps(f) == f.kind \in {"dill", "annot", "closure", "unbound"}

\* inspect.getsource(func): the class of the text it returns, "none" when
\* it raises.
\*   def      - a top-level def of the function's name, complete in itself
\*   indented - the def as it stands inside its enclosing function
\*   free     - a top-level def of the name that reads module names
GetSource(f) ==
    CASE f.kind = "source" -> "def"
      [] f.kind \in {"closure", "nested"} -> "indented"
      [] f.kind = "global" -> "free"
      [] OTHER -> "none"

\* The keys of the three record shapes.
DillKeys ==
    {"name", "doc", "module", "qualname", "annotations", "serialization_method",
     "serialized_data", "timestamp", "source_code"}
SourceKeys == {"name", "doc", "source_code", "serialization_method", "timestamp"}
MetaKeys == {"name", "doc", "serialization_method", "error", "timestamp"}

\* _fallback_serialization: source text, else metadata only (no payload).
fallback_serialization(f) ==
    IF GetSource(f) # "none"
    THEN [method |-> "source_code", ver |-> f.ver, jsonable |-> TRUE,
          payload |-> GetSource(f), keys |-> SourceKeys]
    ELSE [method |-> "metadata_only", ver |-> 0, jsonable |-> TRUE,
          payload |-> "none", keys |-> MetaKeys]

\* Mutant: the source text is tried before dill.
serialize_function_source_first(f) ==
    IF GetSource(f) # "none" THEN fallback_serialization(f)
    ELSE IF DillDumps(f)
         THEN [method |-> "dill", ver |-> f.ver, jsonable |-> f.kind # "annot",
               payload |-> f.kind, keys |-> DillKeys]
         ELSE fallback_serialization(f)

\* serialize_function: dill first; the record carries __annotations__ as is,
\* so it is a JSON value only when the annotations are. payload is what
\* serialized_data pickles: the callable.
serialize_function(f) ==
    IF DillDumps(f)
    THEN [method |-> "dill", ver |-> f.ver, jsonable |-> f.kind # "annot",
          payload |-> f.kind, keys |-> DillKeys]
    ELSE fallback_serialization(f)

\* Mutant: a record without payload is resolved by its name.
deserialize_function_by_name(r) ==
    CASE r.method = "dill" -> [ver |-> r.ver, kind |-> r.payload]
      [] r.method = "source_code" /\ r.payload = "def" -> [ver |-> r.ver, kind |-> "dill"]
      [] r.method = "source_code" /\ r.payload = "free" -> [ver |-> r.ver, kind |-> "unbound"]
      [] r.method = "metadata_only" -> [ver |-> r.ver, kind |-> "dill"]
      [] OTHER -> NoFunc

\* Mutant: dill.loads rebuilds the code and drops the closure cells.
deserialize_function_no_cells(r) ==
    CASE r.method = "dill" /\ r.payload = "closure" -> [ver |-> r.ver, kind |-> "unbound"]
      [] r.method = "dill" -> [ver |-> r.ver, kind |-> r.payload]
      [] r.method = "source_code" /\ r.payload = "def" -> [ver |-> r.ver, kind |-> "dill"]
      [] r.method = "source_code" /\ r.payload = "free" -> [ver |-> r.ver, kind |-> "unbound"]
      [] OTHER -> NoFunc

\* deserialize_function: dill.loads gives the callable back. The source
\* path exec()s the text in an empty dict and returns the callable bound to
\* the recorded name. payload of a source_code record is the class of its
\* text; besides what GetSource gives:
\*   empty      - "" or null
\*   other_name - runs, binds no callable to the recorded name
\*   raises     - running it raises an Exception
\*   exits      - running it raises SystemExit or KeyboardInterrupt
\* "indented" raises IndentationError; "free" binds a function whose
\* globals are the empty dict. Anything else is None.
deserialize_function(r) ==
    CASE r.method = "dill" -> [ver |-> r.ver, kind |-> r.payload]
      [] r.method = "source_code" /\ r.payload = "def" -> [ver |-> r.ver, kind |-> "dill"]
      [] r.method = "source_code" /\ r.payload = "free" -> [ver |-> r.ver, kind |-> "unbound"]
      [] r.method = "source_code" /\ r.payload = "exits" -> Raised
      [] OTHER -> NoFunc

\* ------------------------------------------------------------------- files

AbsentFile == [st |-> "absent", agent_id |-> NoAgent,
               tools |-> EmptyMap, data |-> EmptyMap, sw |-> EmptyMap]
\* A file that json.load rejects: empty, truncated or garbled.
BadFile == [st |-> "bad", agent_id |-> NoAgent,
            tools |-> EmptyMap, data |-> EmptyMap, sw |-> EmptyMap]

\* _serialize_custom_tools
serialize_custom_tools(c) == [n \in DOMAIN c.tools |-> serialize_function(c.tools[n])]

\* The state dict built by _save_persistent_state / export_state.
StateDict(c) ==
    [st |-> "ok", agent_id |-> c.aid,
     tools |-> serialize_custom_tools(c), data |-> c.data, sw |-> c.sw]

\* json.dump raises TypeError on a value that is no JSON value.
JsonDumps(s) == \A n \in DOMAIN s.tools : s.tools[n].jsonable

\* -------------------------------------------------------------- containers

NoObj ==
    [aid |-> NoAgent, auto |-> FALSE, hasTools |-> FALSE, tools |-> EmptyMap,
     hasData |-> FALSE, data |-> EmptyMap, hasSw |-> FALSE, sw |-> EmptyMap,
     dirty |-> FALSE]

\* PersistentA1.__init__ before _load_persistent_state.
FreshContainer(a, auto) == [NoObj EXCEPT !.aid = a, !.auto = auto]

\* _restore_custom_tools: only the records that decode are kept.
restore_custom_tools(c, recs) ==
    LET ok == {n \in DOMAIN recs : deserialize_function(recs[n]) # NoFunc}
    IN  [c EXCEPT !.hasTools = TRUE,
                  !.tools = Update(c.tools, [n \in ok |-> deserialize_function(recs[n])])]

\* _restore_custom_data
restore_custom_data(c, d) == [c EXCEPT !.hasData = TRUE, !.data = Update(c.data, d)]

\* _restore_custom_software
restore_custom_software(c, s) == [c EXCEPT !.hasSw = TRUE, !.sw = Update(c.sw, s)]

\* _load_persistent_state: a missing file starts fresh; a file json.load
\* rejects is logged and the container stays as constructed.
load_persistent_state(c, file) ==
    IF file.st # "ok" THEN c
    ELSE restore_custom_software(
             restore_custom_data(restore_custom_tools(c, file.tools), file.data),
             file.sw)

\* PersistentA1(agent_id, auto_save)
NewContainer(a, auto, file) == load_persistent_state(FreshContainer(a, auto), file)


\* Mutant: the state file itself is opened for writing.
temp_file_is_state_file == "canon"

\* temp_file = self.state_file.with_suffix('.tmp'): the file that open(.., 'w')
\* truncates and json.dump fills is the sibling <agent_id>.tmp.
temp_file == "tmp"

\* Mutant: a save that fails still marks the container clean.
save_persistent_state_clears(c, file, tmpf) ==
    IF ~c.auto THEN [c |-> c, file |-> file, tmp |-> tmpf]
    ELSE IF JsonDumps(StateDict(c))
         THEN [c |-> [c EXCEPT !.dirty = FALSE], file |-> StateDict(c),
               tmp |-> IF temp_file = "tmp" THEN AbsentFile ELSE tmpf]
         ELSE [c |-> [c EXCEPT !.dirty = FALSE],
               file |-> IF temp_file = "tmp" THEN file ELSE BadFile,
               tmp |-> IF temp_file = "tmp" THEN BadFile ELSE tmpf]

\* _save_persistent_state as one step: nothing when auto_save is off; else
\* the state dict is dumped to temp_file and renamed over the state file; an
\* exception (json.dump's TypeError) is logged, the file being written stays
\* truncated and the dirty flag stays as it was.
save_persistent_state(c, file, tmpf) ==
    IF ~c.auto THEN [c |-> c, file |-> file, tmp |-> tmpf]
    ELSE IF JsonDumps(StateDict(c))
         THEN [c |-> [c EXCEPT !.dirty = FALSE], file |-> StateDict(c),
               tmp |-> IF temp_file = "tmp" THEN AbsentFile ELSE tmpf]
         ELSE [c |-> c,
               file |-> IF temp_file = "tmp" THEN file ELSE BadFile,
               tmp |-> IF temp_file = "tmp" THEN BadFile ELSE tmpf]

\* "if self._auto_save_enabled: self._save_persistent_state()"
AutoSave(c, file, tmpf) ==
    IF c.auto THEN save_persistent_state(c, file, tmpf)
    ELSE [c |-> c, file |-> file, tmp |-> tmpf]

\* add_tool: self._custom_tools[api.__name__] = api
add_tool(c, name, f) ==
    [c EXCEPT !.hasTools = TRUE, !.tools = Update(c.tools, Single(name, f)),
              !.dirty = TRUE]

\* Mutant: a key that is already there keeps its description.
add_data_keep_first(c, d) ==
    [c EXCEPT !.hasData = TRUE, !.data = Update(d, c.data), !.dirty = TRUE]

\* add_data: self._custom_data.update(data)
add_data(c, d) ==
    [c EXCEPT !.hasData = TRUE, !.data = Update(c.data, d), !.dirty = TRUE]

\* add_software: each (name, description) is recorded
add_software(c, s) ==
    [c EXCEPT !.hasSw = TRUE, !.sw = Update(c.sw, s), !.dirty = TRUE]

\* _install_package(package_spec) for each name of `names`: the package
\* manager is run; failing holds the names for which it fails, which is
\* logged. What is left: the runs made and the packages installed.
install_packages(names, failing) ==
    [attempted |-> names, installed |-> names \ failing]

\* What add_software leaves outside the container when install is False.
NoInstall == install_packages({}, {})

\* remove_custom_tool, the branch taken when the tool is present
remove_custom_tool(c, name) ==
    [c EXCEPT !.tools = Del(c.tools, name), !.dirty = TRUE]

\* remove_custom_data, the branch taken when the key is present
remove_custom_data(c, key) ==
    [c EXCEPT !.data = Del(c.data, key), !.dirty = TRUE]

\* import_state up to its save: the in-memory sets after reading `file`.
import_state_mem(c, file, merge) ==
    LET c0 == IF merge THEN c
              ELSE [c EXCEPT !.hasTools = TRUE, !.tools = EmptyMap,
                             !.hasData = TRUE, !.data = EmptyMap,
                             !.hasSw = TRUE, !.sw = EmptyMap]
        c1 == restore_custom_tools(c0, file.tools)
    IN  [c1 EXCEPT !.hasData = TRUE,
                   !.data = IF merge /\ c1.hasData THEN Update(c1.data, file.data)
                            ELSE file.data,
                   !.hasSw = TRUE,
                   !.sw = IF merge /\ c1.hasSw THEN Update(c1.sw, file.sw)
                          ELSE file.sw]

\* ------------------------------------------------------------------- state

VARIABLES
    obj,      \* the container objects of the process: id -> PersistentA1
    agents,   \* GlobalAgentManager._agents: agent id -> object id, 0 = absent
    disk,     \* <base>/states/<agent_id>.json
    tmp,      \* <base>/states/<agent_id>.tmp
    dirs,     \* agent ids whose tools/ and data/ directories exist
    expf,     \* the file at the export path the callers use
    res,      \* the last call: what it was and how it ended
    pc,       \* per caller: where it stands inside its handler
    loc,      \* per caller: the handler's local variables
    cloned,   \* history: the pairs <<source, target>> clone_agent has completed
    mgr       \* GlobalAgentManager: _instance, its _initialized and base_state_dir

vars == <<obj, agents, disk, tmp, dirs, expf, res, pc, loc, cloned, mgr>>

ObjIds == 1..MaxObjs
Threads == {"t1", "t2"}

NoLoc == [o |-> 0, aid |-> NoAgent, op |-> "none", attr |-> "none", arg |-> EmptyMap,
          noattr |-> FALSE, snap |-> AbsentFile, fh |-> "none", ret |-> 0]

Live(o) == obj[o].aid # NoAgent
FreeIds == {i \in ObjIds : ~Live(i)}
NewId == CHOOSE i \in FreeIds : \A j \in FreeIds : i <= j

Result(op, ok, val) == [op |-> op, ok |-> ok, val |-> val]

\* GlobalAgentManager as the class statement leaves it: no instance yet.
NoDir == "none"
DefaultDir == "./data/agents"
ClassManager == [instance |-> 0, initialized |-> FALSE, base_state_dir |-> NoDir]

\* __init__(self, base_state_dir): a no-op on an initialized instance,
\* otherwise it takes the directory it is given.
manager_init(m, base) ==
    IF m.initialized THEN m
    ELSE [m EXCEPT !.initialized = TRUE, !.base_state_dir = base]

\* __new__(cls): the one instance, made on the first call.
manager_new(m) ==
    IF m.instance = 0 THEN [m EXCEPT !.instance = 1, !.initialized = FALSE] ELSE m

\* The module's last statement, agent_manager = GlobalAgentManager(), has run
\* by the time any caller can reach the class.
ImportedManager == manager_init(manager_new(ClassManager), DefaultDir)

Init ==
    /\ obj = [i \in ObjIds |-> NoObj]
    /\ agents = [a \in AgentIds |-> 0]
    /\ disk = [a \in AgentIds |-> AbsentFile]
    /\ tmp = [a \in AgentIds |-> AbsentFile]
    /\ dirs = {}
    /\ expf = AbsentFile
    /\ res = Result("init", TRUE, 0)
    /\ pc = [t \in Threads |-> "idle"]
    /\ loc = [t \in Threads |-> NoLoc]
    /\ cloned = {}
    /\ mgr = ImportedManager

\* The container, its state file and its temporary file after a handler.
Store(o, r) ==
    /\ obj' = [obj EXCEPT ![o] = r.c]
    /\ disk' = [disk EXCEPT ![r.c.aid] = r.file]
    /\ tmp' = [tmp EXCEPT ![r.c.aid] = r.tmp]

OnDisk(c) == AutoSave(c, disk[c.aid], tmp[c.aid])

\* ------------------------------------------------- container handlers (Spec)

\* super().add_tool / add_data / add_software of biomni.agent.A1, the
\* execution provider: what the registration call returns.
super_result(op) == [provider |-> op]

\* add_tool(api)
AddTool(o, t) ==
    /\ o \in ObjIds /\ Live(o)
    /\ Store(o, OnDisk(add_tool(obj[o], t.name, t.f)))
    /\ res' = Result("add_tool", TRUE, super_result("add_tool"))
    /\ UNCHANGED <<agents, dirs, expf, pc, loc, cloned, mgr>>

\* add_data(data)
AddData(o, d) ==
    /\ o \in ObjIds /\ Live(o)
    /\ Store(o, OnDisk(add_data(obj[o], d)))
    /\ res' = Result("add_data", TRUE, super_result("add_data"))
    /\ UNCHANGED <<agents, dirs, expf, pc, loc, cloned, mgr>>

\* add_software(software, install); failing: the names whose installation
\* the package manager would fail. val is what the call returns and what
\* it did outside the container.
AddSoftware(o, s, install, failing) ==
    /\ o \in ObjIds /\ Live(o)
    /\ Store(o, OnDisk(add_software(obj[o], s)))
    /\ res' = Result("add_software", TRUE,
                     [ret |-> super_result("add_software"),
                      env |-> IF install THEN install_packages(DOMAIN s, failing)
                              ELSE NoInstall])
    /\ UNCHANGED <<agents, dirs, expf, pc, loc, cloned, mgr>>

RemoveTool(o, n) ==
    /\ o \in ObjIds /\ Live(o)
    /\ IF obj[o].hasTools /\ n \in DOMAIN obj[o].tools
       THEN Store(o, OnDisk(remove_custom_tool(obj[o], n)))
       ELSE UNCHANGED <<obj, disk, tmp>>
    /\ res' = Result("remove_tool", TRUE, 0)
    /\ UNCHANGED <<agents, dirs, expf, pc, loc, cloned, mgr>>

RemoveData(o, k) ==
    /\ o \in ObjIds /\ Live(o)
    /\ IF obj[o].hasData /\ k \in DOMAIN obj[o].data
       THEN Store(o, OnDisk(remove_custom_data(obj[o], k)))
       ELSE UNCHANGED <<obj, disk, tmp>>
    /\ res' = Result("remove_data", TRUE, 0)
    /\ UNCHANGED <<agents, dirs, expf, pc, loc, cloned, mgr>>

\* save_state
SaveState(o) ==
    /\ o \in ObjIds /\ Live(o)
    /\ Store(o, save_persistent_state(obj[o], disk[obj[o].aid], tmp[obj[o].aid]))
    /\ res' = Result("save_state", TRUE, 0)
    /\ UNCHANGED <<agents, dirs, expf, pc, loc, cloned, mgr>>

\* Mutant: an export that, like _save_persistent_state, does nothing when
\* auto_save is off.
ExportState_auto_guarded(o) ==
    /\ o \in ObjIds /\ Live(o)
    /\ IF ~obj[o].auto
       THEN UNCHANGED expf /\ res' = Result("export", TRUE, 0)
       ELSE IF JsonDumps(StateDict(obj[o]))
            THEN expf' = StateDict(obj[o]) /\ res' = Result("export", TRUE, 0)
            ELSE expf' = BadFile /\ res' = Result("export", FALSE, 0)
    /\ UNCHANGED <<obj, agents, disk, tmp, dirs, pc, loc, cloned, mgr>>

\* export_state: open(export_path, 'w') truncates, json.dump may raise.
ExportState(o) ==
    /\ o \in ObjIds /\ Live(o)
    /\ IF JsonDumps(StateDict(obj[o]))
       THEN expf' = StateDict(obj[o]) /\ res' = Result("export", TRUE, 0)
       ELSE expf' = BadFile /\ res' = Result("export", FALSE, 0)
    /\ UNCHANGED <<obj, agents, disk, tmp, dirs, pc, loc, cloned, mgr>>

\* Mutant: an import that refuses a file another agent exported.
ImportState_checks_id(o, merge) ==
    /\ o \in ObjIds /\ Live(o)
    /\ IF expf.st = "ok" /\ expf.agent_id = obj[o].aid
       THEN /\ Store(o, LET c1 == import_state_mem(obj[o], expf, merge)
                        IN  save_persistent_state(c1, disk[c1.aid], tmp[c1.aid]))
            /\ res' = Result(IF merge THEN "import_merge" ELSE "import_replace", TRUE, 0)
       ELSE /\ UNCHANGED <<obj, disk, tmp>>
            /\ res' = Result(IF merge THEN "import_merge" ELSE "import_replace", FALSE, 0)
    /\ UNCHANGED <<agents, dirs, expf, pc, loc, cloned, mgr>>

\* import_state: a missing or unparsable file raises before anything changes;
\* state['agent_id'] is never read.
ImportState(o, merge) ==
    /\ o \in ObjIds /\ Live(o)
    /\ IF expf.st = "ok"
       THEN /\ Store(o, LET c1 == import_state_mem(obj[o], expf, merge)
                        IN  save_persistent_state(c1, disk[c1.aid], tmp[c1.aid]))
            /\ res' = Result(IF merge THEN "import_merge" ELSE "import_replace", TRUE, 0)
       ELSE /\ UNCHANGED <<obj, disk, tmp>>
            /\ res' = Result(IF merge THEN "import_merge" ELSE "import_replace", FALSE, 0)
    /\ UNCHANGED <<agents, dirs, expf, pc, loc, cloned, mgr>>


\* ----------------------------------------------- registry handlers (Spec)

FreeIn(ob) == {i \in ObjIds : ob[i].aid = NoAgent}
MinFree(ob) == CHOOSE i \in FreeIn(ob) : \A j \in FreeIn(ob) : i <= j

\* create_agent(agent_id, overwrite, auto_save=auto)
CreateAgent(a, overwrite, auto) ==
    /\ IF agents[a] # 0 /\ ~overwrite
       THEN /\ UNCHANGED <<obj, agents, dirs>>
            /\ res' = Result("create_agent", TRUE, agents[a])
       ELSE /\ FreeIds # {}
            /\ obj' = [obj EXCEPT ![NewId] = NewContainer(a, auto, disk[a])]
            /\ agents' = [agents EXCEPT ![a] = NewId]
            /\ dirs' = dirs \cup {a}
            /\ res' = Result("create_agent", TRUE, NewId)
    /\ UNCHANGED <<disk, tmp, expf, pc, loc, cloned, mgr>>

\* Mutant: get_agent applies the keyword arguments to the live container.
GetAgent_applies_kwargs(a, auto) ==
    /\ IF agents[a] # 0
       THEN /\ obj' = [obj EXCEPT ![agents[a]].auto = auto]
            /\ UNCHANGED <<agents, dirs>>
            /\ res' = Result("get_agent", TRUE, agents[a])
       ELSE /\ FreeIds # {}
            /\ obj' = [obj EXCEPT ![NewId] = NewContainer(a, auto, disk[a])]
            /\ agents' = [agents EXCEPT ![a] = NewId]
            /\ dirs' = dirs \cup {a}
            /\ res' = Result("get_agent", TRUE, NewId)
    /\ UNCHANGED <<disk, tmp, expf, pc, loc, cloned, mgr>>

\* get_agent(agent_id, auto_save=auto)
GetAgent(a, auto) ==
    /\ IF agents[a] # 0
       THEN /\ UNCHANGED <<obj, agents, dirs>>
            /\ res' = Result("get_agent", TRUE, agents[a])
       ELSE /\ FreeIds # {}
            /\ obj' = [obj EXCEPT ![NewId] = NewContainer(a, auto, disk[a])]
            /\ agents' = [agents EXCEPT ![a] = NewId]
            /\ dirs' = dirs \cup {a}
            /\ res' = Result("get_agent", TRUE, NewId)
    /\ UNCHANGED <<disk, tmp, expf, pc, loc, cloned, mgr>>

\* Mutant: delete_agent removes the files whatever remove_files says.
DeleteAgent_all_files(a, remove_files) ==
    /\ agents' = [agents EXCEPT ![a] = 0]
    /\ disk' = [disk EXCEPT ![a] = AbsentFile]
    /\ dirs' = dirs \ {a}
    /\ res' = Result("delete_agent", TRUE, 0)
    /\ UNCHANGED <<obj, tmp, expf, pc, loc, cloned, mgr>>

\* delete_agent(agent_id, remove_files)
DeleteAgent(a, remove_files) ==
    /\ agents' = [agents EXCEPT ![a] = 0]
    /\ IF remove_files
       THEN disk' = [disk EXCEPT ![a] = AbsentFile] /\ dirs' = dirs \ {a}
       ELSE UNCHANGED <<disk, dirs>>
    /\ res' = Result("delete_agent", TRUE, 0)
    /\ UNCHANGED <<obj, tmp, expf, pc, loc, cloned, mgr>>

\* A clone that hands out the source's own container under the target id
\* instead of exporting and importing a copy.
CloneAgent_shared(s, t) ==
    /\ agents[s] # 0
    /\ agents' = [agents EXCEPT ![t] = agents[s]]
    /\ dirs' = dirs \cup {s, t}
    /\ cloned' = cloned \cup {<<s, t>>}
    /\ res' = Result("clone_agent", TRUE, agents[s])
    /\ UNCHANGED <<obj, disk, tmp, expf, pc, loc, mgr>>

\* clone_agent(source_agent_id, target_agent_id): the source is taken from
\* the live map or made by get_agent, exported to a temporary file, the
\* target made by create_agent and the file imported with merge=False.
CloneAgent(s, t) ==
    LET so == IF agents[s] # 0 THEN agents[s] ELSE NewId
        obj1 == IF agents[s] # 0 THEN obj
                ELSE [obj EXCEPT ![so] = NewContainer(s, TRUE, disk[s])]
        agents1 == [agents EXCEPT ![s] = so]
        sd == StateDict(obj1[so])
        to == IF agents1[t] # 0 THEN agents1[t] ELSE MinFree(obj1)
        obj2 == IF agents1[t] # 0 THEN obj1
                ELSE [obj1 EXCEPT ![to] = NewContainer(t, TRUE, disk[t])]
        c1 == import_state_mem(obj2[to], sd, FALSE)
        r == save_persistent_state(c1, disk[t], tmp[t])
    IN  /\ agents[s] = 0 => FreeIds # {}
        /\ IF ~JsonDumps(sd)
           THEN /\ obj' = obj1
                /\ agents' = agents1
                /\ dirs' = dirs \cup {s}
                /\ UNCHANGED <<disk, tmp, cloned, mgr>>
                /\ res' = Result("clone_agent", FALSE, 0)
           ELSE /\ agents1[t] = 0 => FreeIn(obj1) # {}
                /\ obj' = [obj2 EXCEPT ![to] = r.c]
                /\ agents' = [agents1 EXCEPT ![t] = to]
                /\ dirs' = dirs \cup {s, t}
                /\ disk' = [disk EXCEPT ![t] = r.file]
                /\ tmp' = [tmp EXCEPT ![t] = r.tmp]
                /\ cloned' = cloned \cup {<<s, t>>}
                /\ res' = Result("clone_agent", TRUE, to)
        /\ UNCHANGED <<expf, pc, loc, mgr>>

\* The process ends and a new one starts: every object is gone, the files stay.
Restart ==
    /\ obj' = [i \in ObjIds |-> NoObj]
    /\ agents' = [a \in AgentIds |-> 0]
    /\ res' = Result("restart", TRUE, 0)
    /\ pc' = [t \in Threads |-> "idle"]
    /\ loc' = [t \in Threads |-> NoLoc]
    /\ UNCHANGED <<disk, tmp, dirs, expf, cloned, mgr>>

\* What the callers pass in Spec: a tool x in two versions (x and x'), a
\* tool z that only metadata_only can record and a z with type annotations;
\* one data key with two descriptions; one software reference.
ToolInputs ==
    { [name |-> "x", f |-> [ver |-> 1, kind |-> "dill"]],
      [name |-> "x", f |-> [ver |-> 2, kind |-> "dill"]],
      [name |-> "z", f |-> [ver |-> 1, kind |-> "meta"]],
      [name |-> "z", f |-> [ver |-> 2, kind |-> "annot"]] }
DataInputs == {Single("d1", "u"), Single("d1", "v")}
SoftInputs == {Single("s1", "u")}

\* Spec: one agent id, the callers work on the container the registry holds.
Next ==
    \/ \E t \in ToolInputs : AddTool(agents["A"], t)
    \/ \E d \in DataInputs : AddData(agents["A"], d)
    \/ \E n \in ToolNames : RemoveTool(agents["A"], n)
    \/ \E k \in DataKeys : RemoveData(agents["A"], k)
    \/ SaveState(agents["A"])
    \/ ExportState(agents["A"])
    \/ \E m \in BOOLEAN : ImportState(agents["A"], m)
    \/ \E au \in BOOLEAN : GetAgent("A", au)
    \/ Restart

Spec == Init /\ [][Next]_vars


\* SpecClone: two agent ids, the callers work on the registered containers
\* and clone them.
CloneToolInputs ==
    { [name |-> "x", f |-> [ver |-> 1, kind |-> "dill"]],
      [name |-> "z", f |-> [ver |-> 1, kind |-> "meta"]] }
CloneDataInputs == {Single("d1", "u")}

NextClone ==
    \/ \E a \in AgentIds, t \in CloneToolInputs : AddTool(agents[a], t)
    \/ \E a \in AgentIds, d \in CloneDataInputs : AddData(agents[a], d)
    \/ \E a \in AgentIds, s \in SoftInputs : AddSoftware(agents[a], s, FALSE, {})
    \/ \E a \in AgentIds, n \in ToolNames : RemoveTool(agents[a], n)
    \/ \E a \in AgentIds : GetAgent(a, TRUE)
    \/ \E s \in AgentIds : \E t \in AgentIds \ {s} : CloneAgent(s, t)
    \/ Restart

SpecClone == Init /\ [][NextClone]_vars


\* ------------------------------------------------- registry listing, SpecReg

\* The files of <base>/states: <agent_id>.json and <agent_id>.tmp.
StatesDir ==
    {[stem |-> a, suffix |-> "json"] : a \in {b \in AgentIds : disk[b].st # "absent"}}
        \cup {[stem |-> a, suffix |-> "tmp"] : a \in {b \in AgentIds : tmp[b].st # "absent"}}

\* Mutant: only the live map is listed.
list_agents_in_memory == {a \in AgentIds : agents[a] # 0}

\* list_agents: the keys of _agents and the stems of states/*.json.
list_agents ==
    LET in_memory == {a \in AgentIds : agents[a] # 0}
        on_disk == {f.stem : f \in {g \in StatesDir : g.suffix = "json"}}
    IN  in_memory \cup on_disk

ListAgents ==
    /\ res' = Result("list_agents", TRUE, list_agents)
    /\ UNCHANGED <<obj, agents, disk, tmp, dirs, expf, pc, loc, cloned, mgr>>

\* The state file of agent a is damaged from outside the program (a disk
\* fault, an editor): what is there no longer parses.
Corrupt(a) ==
    /\ disk[a].st = "ok"
    /\ disk' = [disk EXCEPT ![a] = BadFile]
    /\ res' = Result("corrupt", TRUE, 0)
    /\ UNCHANGED <<obj, agents, tmp, dirs, expf, pc, loc, cloned, mgr>>

RegDataInputs == {Single("d1", "u")}

\* SpecReg: the callers keep the handles get_agent gave them and use them
\* after the registry has dropped the agent.
NextReg ==
    \/ \E a \in AgentIds, au \in BOOLEAN : GetAgent(a, au)
    \/ \E a \in AgentIds : CreateAgent(a, FALSE, TRUE)
    \/ \E a \in AgentIds, rf \in BOOLEAN : DeleteAgent(a, rf)
    \/ \E o \in ObjIds, d \in RegDataInputs : AddData(o, d)
    \/ ListAgents
    \/ \E a \in AgentIds : Corrupt(a)
    \/ Restart

SpecReg == Init /\ [][NextReg]_vars


\* ---------------------------------------- handlers step by step (callers)
\* A caller t runs one handler at a time; another caller, or a crash, can
\* come between any two of its steps. pc[t]:
\*   g_check2, g_construct, g_register   get_agent -> create_agent
\*   a_init, a_update                    add_tool / add_data
\*   s_snap, s_open, s_write, s_replace, s_clear   _save_persistent_state
\*   done                                the handler has returned

SetPc(t, p) == pc' = [pc EXCEPT ![t] = p]

\* get_agent, line 575: "if agent_id in self._agents".
BeginGet(t, a) ==
    /\ pc[t] = "idle"
    /\ IF agents[a] # 0
       THEN /\ loc' = [loc EXCEPT ![t] = [NoLoc EXCEPT !.op = "get_agent", !.aid = a,
                                                       !.ret = agents[a]]]
            /\ SetPc(t, "done")
       ELSE /\ loc' = [loc EXCEPT ![t] = [NoLoc EXCEPT !.op = "get_agent", !.aid = a]]
            /\ SetPc(t, "g_check2")
    /\ UNCHANGED <<obj, agents, disk, tmp, dirs, expf, res, cloned, mgr>>

\* create_agent, line 558: "if agent_id in self._agents and not overwrite".
GetCheck2(t) ==
    /\ pc[t] = "g_check2"
    /\ IF agents[loc[t].aid] # 0
       THEN loc' = [loc EXCEPT ![t].ret = agents[loc[t].aid]] /\ SetPc(t, "done")
       ELSE UNCHANGED loc /\ SetPc(t, "g_construct")
    /\ UNCHANGED <<obj, agents, disk, tmp, dirs, expf, res, cloned, mgr>>

\* create_agent, line 567: PersistentA1(agent_id=agent_id, ...) makes the
\* directories and loads the state file.
GetConstruct(t) ==
    /\ pc[t] = "g_construct"
    /\ FreeIds # {}
    /\ obj' = [obj EXCEPT ![NewId] = NewContainer(loc[t].aid, TRUE, disk[loc[t].aid])]
    /\ dirs' = dirs \cup {loc[t].aid}
    /\ loc' = [loc EXCEPT ![t].ret = NewId]
    /\ SetPc(t, "g_register")
    /\ UNCHANGED <<agents, disk, tmp, expf, res, cloned, mgr>>

\* create_agent, line 568: self._agents[agent_id] = agent
GetRegister(t) ==
    /\ pc[t] = "g_register"
    /\ agents' = [agents EXCEPT ![loc[t].aid] = loc[t].ret]
    /\ SetPc(t, "done")
    /\ UNCHANGED <<obj, disk, tmp, dirs, expf, res, loc, cloned, mgr>>

HasAttr(c, attr) == IF attr = "tools" THEN c.hasTools ELSE c.hasData

\* add_tool / add_data, lines 299 and 317: "if not hasattr(self, ...)".
\* arg is the dict to merge: {api.__name__: api} or data.
BeginAdd(t, o, attr, arg) ==
    /\ pc[t] = "idle"
    /\ o \in ObjIds /\ Live(o)
    /\ loc' = [loc EXCEPT ![t] =
                 [NoLoc EXCEPT !.op = "add", !.o = o, !.aid = obj[o].aid, !.attr = attr,
                               !.arg = arg, !.noattr = ~HasAttr(obj[o], attr)]]
    /\ SetPc(t, IF HasAttr(obj[o], attr) THEN "a_update" ELSE "a_init")
    /\ UNCHANGED <<obj, agents, disk, tmp, dirs, expf, res, cloned, mgr>>

\* lines 300 and 318: self._custom_tools = {} / self._custom_data = {}
AddInit(t) ==
    /\ pc[t] = "a_init"
    /\ obj' = [obj EXCEPT ![loc[t].o] =
                 IF loc[t].attr = "tools"
                 THEN [@ EXCEPT !.hasTools = TRUE, !.tools = EmptyMap]
                 ELSE [@ EXCEPT !.hasData = TRUE, !.data = EmptyMap]]
    /\ SetPc(t, "a_update")
    /\ UNCHANGED <<agents, disk, tmp, dirs, expf, res, loc, cloned, mgr>>

\* lines 302-306 and 320-324: the entry is stored, the state marked dirty,
\* "if self._auto_save_enabled" read.
AddUpdate(t) ==
    /\ pc[t] = "a_update"
    /\ obj' = [obj EXCEPT ![loc[t].o] =
                 IF loc[t].attr = "tools"
                 THEN [@ EXCEPT !.tools = Update(@, loc[t].arg), !.dirty = TRUE]
                 ELSE [@ EXCEPT !.data = Update(@, loc[t].arg), !.dirty = TRUE]]
    /\ SetPc(t, IF obj[loc[t].o].auto THEN "s_snap" ELSE "done")
    /\ UNCHANGED <<agents, disk, tmp, dirs, expf, res, loc, cloned, mgr>>

\* _save_persistent_state, lines 247-264: the guard and the state dict.
SaveSnap(t) ==
    /\ pc[t] = "s_snap"
    /\ IF obj[loc[t].o].auto
       THEN loc' = [loc EXCEPT ![t].snap = StateDict(obj[loc[t].o])] /\ SetPc(t, "s_open")
       ELSE UNCHANGED loc /\ SetPc(t, "done")
    /\ UNCHANGED <<obj, agents, disk, tmp, dirs, expf, res, cloned, mgr>>

\* line 268: open(temp_file, 'w') creates the file or truncates the one that
\* is there; fh says where the opened file is now: still at the temporary
\* path, at the state file's path (renamed there meanwhile), or unlinked.
SaveOpen(t) ==
    /\ pc[t] = "s_open"
    /\ IF temp_file = "tmp"
       THEN tmp' = [tmp EXCEPT ![loc[t].aid] = BadFile] /\ UNCHANGED disk
       ELSE disk' = [disk EXCEPT ![loc[t].aid] = BadFile] /\ UNCHANGED tmp
    /\ loc' = [loc EXCEPT ![t].fh = temp_file]
    /\ SetPc(t, "s_write")
    /\ UNCHANGED <<obj, agents, dirs, expf, res, cloned, mgr>>

\* What the opened file holds after this writer's json.dump and close: its
\* own document, unless another writer put a different document in the same
\* file after this one opened it; then this writer's bytes overwrite the
\* other's from offset 0 and the result is its document, or its document
\* followed by the tail of a longer one.
Written(old, snap) == IF old.st = "ok" /\ old # snap THEN {snap, BadFile} ELSE {snap}

\* line 269: json.dump(state, f) and the close of the with block. A
\* TypeError leaves the file as opened and ends the handler in the except.
SaveWrite(t) ==
    /\ pc[t] = "s_write"
    /\ IF ~JsonDumps(loc[t].snap)
       THEN /\ UNCHANGED <<disk, tmp>>
            /\ SetPc(t, "done")
       ELSE /\ CASE loc[t].fh = "tmp" ->
                      /\ \E w \in Written(tmp[loc[t].aid], loc[t].snap) :
                            tmp' = [tmp EXCEPT ![loc[t].aid] = w]
                      /\ UNCHANGED disk
                 [] loc[t].fh = "canon" ->
                      /\ \E w \in Written(disk[loc[t].aid], loc[t].snap) :
                            disk' = [disk EXCEPT ![loc[t].aid] = w]
                      /\ UNCHANGED tmp
                 [] OTHER -> UNCHANGED <<disk, tmp>>
            /\ SetPc(t, "s_replace")
    /\ loc' = [loc EXCEPT ![t].fh = "none"]
    /\ UNCHANGED <<obj, agents, dirs, expf, res, cloned, mgr>>

\* line 271: temp_file.replace(self.state_file). The rename raises
\* FileNotFoundError when another writer has renamed the file away. Writers
\* that still hold the renamed file open now write to the state file.
SaveReplace(t) ==
    /\ pc[t] = "s_replace"
    /\ IF temp_file # "tmp"
       THEN UNCHANGED <<disk, tmp, loc>> /\ SetPc(t, "s_clear")
       ELSE IF tmp[loc[t].aid].st = "absent"
            THEN UNCHANGED <<disk, tmp, loc>> /\ SetPc(t, "done")
            ELSE /\ disk' = [disk EXCEPT ![loc[t].aid] = tmp[loc[t].aid]]
                 /\ tmp' = [tmp EXCEPT ![loc[t].aid] = AbsentFile]
                 /\ loc' = [u \in Threads |->
                              IF loc[u].aid # loc[t].aid THEN loc[u]
                              ELSE IF loc[u].fh = "tmp" THEN [loc[u] EXCEPT !.fh = "canon"]
                              ELSE IF loc[u].fh = "canon" THEN [loc[u] EXCEPT !.fh = "orphan"]
                              ELSE loc[u]]
                 /\ SetPc(t, "s_clear")
    /\ UNCHANGED <<obj, agents, dirs, expf, res, cloned, mgr>>

\* line 272: self._state_dirty = False
SaveClear(t) ==
    /\ pc[t] = "s_clear"
    /\ obj' = [obj EXCEPT ![loc[t].o].dirty = FALSE]
    /\ SetPc(t, "done")
    /\ UNCHANGED <<agents, disk, tmp, dirs, expf, res, loc, cloned, mgr>>

\* The caller takes the handler's result and is free for its next call.
Return(t) ==
    /\ pc[t] = "done"
    /\ pc' = [pc EXCEPT ![t] = "idle"]
    /\ loc' = [loc EXCEPT ![t] = NoLoc]
    /\ res' = Result(loc[t].op, TRUE, loc[t].ret)
    /\ UNCHANGED <<obj, agents, disk, tmp, dirs, expf, cloned, mgr>>

\* The process dies while a handler is running; a new process starts.
Crash ==
    /\ \E t \in Threads : pc[t] # "idle"
    /\ obj' = [i \in ObjIds |-> NoObj]
    /\ agents' = [a \in AgentIds |-> 0]
    /\ res' = Result("crash", TRUE, 0)
    /\ pc' = [t \in Threads |-> "idle"]
    /\ loc' = [t \in Threads |-> NoLoc]
    /\ UNCHANGED <<disk, tmp, dirs, expf, cloned, mgr>>

StepGet(t) ==
    \/ GetCheck2(t)
    \/ GetConstruct(t)
    \/ GetRegister(t)
    \/ Return(t)

StepAdd(t) ==
    \/ AddInit(t)
    \/ AddUpdate(t)
    \/ SaveSnap(t)
    \/ SaveOpen(t)
    \/ SaveWrite(t)
    \/ SaveReplace(t)
    \/ SaveClear(t)
    \/ Return(t)

\* SpecCrash: one caller; the process can die between any two steps.
CrashToolInputs ==
    { Single("x", [ver |-> 1, kind |-> "dill"]),
      Single("z", [ver |-> 2, kind |-> "annot"]) }
CrashDataInputs == {Single("d1", "u"), Single("d1", "v")}

NextCrash ==
    \/ BeginGet("t1", "A")
    \/ \E o \in ObjIds, a \in CrashToolInputs : BeginAdd("t1", o, "tools", a)
    \/ \E o \in ObjIds, d \in CrashDataInputs : BeginAdd("t1", o, "data", d)
    \/ StepGet("t1")
    \/ StepAdd("t1")
    \/ Crash

SpecCrash == Init /\ [][NextCrash]_vars

\* SpecGet: two callers of one process ask the registry for agents; their
\* steps interleave freely.
NextGet ==
    \/ \E t \in Threads, a \in AgentIds : BeginGet(t, a)
    \/ \E t \in Threads : StepGet(t)
    \/ (\A t \in Threads : pc[t] = "idle") /\ Restart

SpecGet == Init /\ [][NextGet]_vars

\* SpecAdd: two callers hold the container get_agent("A") returned and add
\* to it; their steps interleave freely.
InitLive ==
    /\ obj = [i \in ObjIds |-> IF i = 1 THEN NewContainer("A", TRUE, AbsentFile) ELSE NoObj]
    /\ agents = [a \in AgentIds |-> IF a = "A" THEN 1 ELSE 0]
    /\ disk = [a \in AgentIds |-> AbsentFile]
    /\ tmp = [a \in AgentIds |-> AbsentFile]
    /\ dirs = {"A"}
    /\ expf = AbsentFile
    /\ res = Result("get_agent", TRUE, 1)
    /\ pc = [t \in Threads |-> "idle"]
    /\ loc = [t \in Threads |-> NoLoc]
    /\ cloned = {}
    /\ mgr = ImportedManager

ConcToolInputs == { Single("x", [ver |-> 1, kind |-> "dill"]) }
ConcDataInputs == {Single("d1", "u"), Single("d2", "u")}

NextAdd ==
    \/ \E t \in Threads, a \in ConcToolInputs : BeginAdd(t, 1, "tools", a)
    \/ \E t \in Threads, d \in ConcDataInputs : BeginAdd(t, 1, "data", d)
    \/ \E t \in Threads : StepAdd(t)

SpecAdd == InitLive /\ [][NextAdd]_vars


\* ------------------------------------------- extensions of one agent, SpecExt

\* What the callers pass in SpecExt: a tool x in two versions and an
\* annotated z; one data key and one software name with two descriptions
\* each, a second software name.
ExtToolInputs ==
    { [name |-> "x", f |-> [ver |-> 1, kind |-> "dill"]],
      [name |-> "x", f |-> [ver |-> 2, kind |-> "dill"]],
      [name |-> "z", f |-> [ver |-> 2, kind |-> "annot"]] }
ExtSoftInputs ==
    { Single("s1", "u"), Single("s1", "v"),
      [k \in {"s1", "s2"} |-> "u"] }

NextExt ==
    \/ \E au \in BOOLEAN : GetAgent("A", au)
    \/ \E t \in ExtToolInputs : AddTool(agents["A"], t)
    \/ \E d \in DataInputs : AddData(agents["A"], d)
    \/ \E s \in ExtSoftInputs, i \in BOOLEAN : \E fl \in SUBSET (DOMAIN s) :
           AddSoftware(agents["A"], s, i, fl)
    \/ Restart

SpecExt == Init /\ [][NextExt]_vars


\* --------------------------------------- summaries and cleanup, SpecSum

\* The None that get_agent_summary returns.
NoSummary == [agent_id |-> NoAgent]

\* PersistentA1.get_state_summary; has_file says whether last_modified is a
\* time or None.
get_state_summary(c, file) ==
    [agent_id |-> c.aid,
     custom_tools_count |-> Cardinality(DOMAIN c.tools),
     custom_data_count |-> Cardinality(DOMAIN c.data),
     custom_software_count |-> Cardinality(DOMAIN c.sw),
     auto_save_enabled |-> c.auto,
     state_dirty |-> c.dirty,
     has_file |-> file.st # "absent"]

\* The dict get_agent_summary builds from a state file that json.load read.
file_summary(a, file) ==
    [agent_id |-> a,
     in_memory |-> FALSE,
     custom_tools_count |-> Cardinality(DOMAIN file.tools),
     custom_data_count |-> Cardinality(DOMAIN file.data),
     custom_software_count |-> Cardinality(DOMAIN file.sw)]

\* get_agent_summary(agent_id): the live container's summary; else what the
\* state file holds; a file that json.load rejects is logged and the
\* result is None, as it is without a file.
GetAgentSummary(a) ==
    /\ res' = Result("get_agent_summary", TRUE,
                     IF agents[a] # 0 THEN get_state_summary(obj[agents[a]], disk[a])
                     ELSE IF disk[a].st = "ok" THEN file_summary(a, disk[a])
                     ELSE NoSummary)
    /\ UNCHANGED <<obj, agents, disk, tmp, dirs, expf, pc, loc, cloned, mgr>>

SecondsPerHour == 3600

\* The readings of st_mtime, in seconds, and the clock at the sweep: a
\* file is an hour old or was written just now.
Times == {0, SecondsPerHour}
Now == SecondsPerHour

\* Mutant: a file modified exactly at the cutoff counts as idle.
IsIdle_inclusive(last_modified, cutoff_time) == last_modified <= cutoff_time

\* "if last_modified < cutoff_time"
IsIdle(last_modified, cutoff_time) == last_modified < cutoff_time

\* cleanup_unused_agents(max_idle_hours). now is datetime.now() and mt[a]
\* the st_mtime of <a>.json as the file system reports them at the call.
CleanupUnused(mt, now, max_idle_hours) ==
    LET cutoff_time == now - max_idle_hours * SecondsPerHour
        to_remove == {a \in AgentIds : /\ agents[a] # 0
                                       /\ disk[a].st # "absent"
                                       /\ IsIdle(mt[a], cutoff_time)}
    IN  /\ agents' = [a \in AgentIds |-> IF a \in to_remove THEN 0 ELSE agents[a]]
        /\ res' = Result("cleanup", TRUE, Cardinality(to_remove))
        /\ UNCHANGED <<obj, disk, tmp, dirs, expf, pc, loc, cloned, mgr>>

\* What the callers pass in SpecSum: a tool that only metadata_only can
\* record.
SumToolInputs == {[name |-> "z", f |-> [ver |-> 1, kind |-> "meta"]]}

\* SpecSum: the registry's callers, summaries and the idle sweep.
NextSum ==
    \/ \E a \in AgentIds : GetAgent(a, TRUE)
    \/ \E a \in AgentIds, t \in SumToolInputs : AddTool(agents[a], t)
    \/ \E a \in AgentIds : GetAgentSummary(a)
    \/ \E mt \in [AgentIds -> Times], h \in 0..MaxIdleHours : CleanupUnused(mt, Now, h)
    \/ \E a \in AgentIds : Corrupt(a)
    \/ Restart

SpecSum == Init /\ [][NextSum]_vars


\* ------------------------------------- ToolSerializationEngine, SpecSer

CallableKinds ==
    {"dill", "annot", "closure", "source", "nested", "global", "meta", "unbound"}

\* The callables handed to the engine.
Callables == [ver : 1..MaxVer, kind : CallableKinds]

\* The records handed to deserialize_function: any the engine writes and
\* source_code records whose text came from elsewhere.
Records ==
    {serialize_function(f) : f \in Callables}
        \cup {fallback_serialization(f) : f \in Callables}
        \cup [method : {"source_code"}, ver : 1..MaxVer, jsonable : {TRUE},
              payload : {"empty", "other_name", "raises", "exits"},
              keys : {SourceKeys}]

\* ToolSerializationEngine.serialize_function(func)
Encode(f) ==
    /\ res' = Result("encode", TRUE, [f |-> f, r |-> serialize_function(f), g |-> NoFunc])
    /\ UNCHANGED <<obj, agents, disk, tmp, dirs, expf, pc, loc, cloned, mgr>>

\* ToolSerializationEngine._fallback_serialization(func), called directly
Fallback(f) ==
    /\ res' = Result("fallback", TRUE,
                     [f |-> f, r |-> fallback_serialization(f), g |-> NoFunc])
    /\ UNCHANGED <<obj, agents, disk, tmp, dirs, expf, pc, loc, cloned, mgr>>

\* ToolSerializationEngine.deserialize_function(metadata); ok is FALSE when
\* the call raises instead of returning.
Decode(r) ==
    /\ res' = Result("decode", deserialize_function(r) # Raised,
                     [f |-> NoFunc, r |-> r, g |-> deserialize_function(r)])
    /\ UNCHANGED <<obj, agents, disk, tmp, dirs, expf, pc, loc, cloned, mgr>>

\* deserialize_function(serialize_function(func))
RoundTrip(f) ==
    LET r == serialize_function(f)
    IN  /\ res' = Result("round_trip", deserialize_function(r) # Raised,
                         [f |-> f, r |-> r, g |-> deserialize_function(r)])
        /\ UNCHANGED <<obj, agents, disk, tmp, dirs, expf, pc, loc, cloned, mgr>>

NextSer ==
    \/ \E f \in Callables : Encode(f)
    \/ \E f \in Callables : Fallback(f)
    \/ \E r \in Records : Decode(r)
    \/ \E f \in Callables : RoundTrip(f)

SpecSer == Init /\ [][NextSer]_vars


\* --------------------------------------- the documents a save writes, SpecSave

\* What datetime.now() can return.
Clock == 1..MaxClock

NoDoc == [agent_id |-> NoAgent]

\* The document _save_persistent_state dumps at clock reading `now`: the
\* state dict with its own timestamp, and in custom_tools the record
\* serialize_function builds for each tool during this save, each with the
\* timestamp of that moment.
StateDocument(c, now) ==
    [agent_id |-> c.aid,
     timestamp |-> now,
     custom_tools |-> [n \in DOMAIN c.tools |->
                          [record |-> serialize_function(c.tools[n]),
                           timestamp |-> now]],
     custom_data |-> c.data,
     custom_software |-> c.sw,
     version |-> "1.0"]

\* save_state called at clock reading `now`; val is the document that
\* reached the state file, NoDoc when none did.
SaveStateAt(o, now) ==
    /\ o \in ObjIds /\ Live(o)
    /\ Store(o, save_persistent_state(obj[o], disk[obj[o].aid], tmp[obj[o].aid]))
    /\ res' = Result("save_state", TRUE,
                     IF obj[o].auto /\ JsonDumps(StateDict(obj[o]))
                     THEN StateDocument(obj[o], now) ELSE NoDoc)
    /\ UNCHANGED <<agents, dirs, expf, pc, loc, cloned, mgr>>

SaveToolInputs ==
    { [name |-> "x", f |-> [ver |-> 1, kind |-> "dill"]],
      [name |-> "z", f |-> [ver |-> 1, kind |-> "source"]],
      [name |-> "z", f |-> [ver |-> 2, kind |-> "annot"]] }

NextSave ==
    \/ \E au \in BOOLEAN : GetAgent("A", au)
    \/ \E t \in SaveToolInputs : AddTool(agents["A"], t)
    \/ \E d \in DataInputs : AddData(agents["A"], d)
    \/ \E n \in ToolNames : RemoveTool(agents["A"], n)
    \/ \E k \in DataKeys : RemoveData(agents["A"], k)
    \/ \E now \in Clock : SaveStateAt(agents["A"], now)
    \/ Restart

SpecSave == Init /\ [][NextSave]_vars


\* ------------------------------------ export and import between agents, SpecImp

ImpToolInputs == { [name |-> "x", f |-> [ver |-> 1, kind |-> "dill"]] }
ImpDataInputs == {Single("d1", "u"), Single("d2", "u")}

\* SpecImp: each of two agents exports to the one export path and imports
\* what is there, its own export or the other agent's.
NextImp ==
    \/ \E a \in AgentIds : GetAgent(a, TRUE)
    \/ \E a \in AgentIds, t \in ImpToolInputs : AddTool(agents[a], t)
    \/ \E a \in AgentIds, d \in ImpDataInputs : AddData(agents[a], d)
    \/ \E a \in AgentIds : ExportState(agents[a])
    \/ \E a \in AgentIds, m \in BOOLEAN : ImportState(agents[a], m)
    \/ Restart

SpecImp == Init /\ [][NextImp]_vars


\* ------------------------------------------ constructing the registry, SpecMgr

\* What a caller writes between the parentheses of GlobalAgentManager(...):
\* nothing, or a base directory.
NoArg == "noarg"
ManagerArgs == {NoArg, "dirA", "dirB"}

\* GlobalAgentManager(...): type.__call__ hands the arguments to
\* __new__(cls), which takes none, so a call with a base directory raises
\* TypeError before __new__ and __init__ run; without one __new__ gives the
\* instance and __init__ runs with the default directory.
Construct(arg) ==
    /\ IF arg # NoArg
       THEN /\ UNCHANGED mgr
            /\ res' = Result("construct", FALSE, 0)
       ELSE /\ mgr' = manager_init(manager_new(mgr), DefaultDir)
            /\ res' = Result("construct", TRUE, mgr'.instance)
    /\ UNCHANGED <<obj, agents, disk, tmp, dirs, expf, pc, loc, cloned>>

\* SpecMgr starts where the class statement has run and nothing has been
\* constructed; the registry's methods need an instance.
InitMgr ==
    /\ obj = [i \in ObjIds |-> NoObj]
    /\ agents = [a \in AgentIds |-> 0]
    /\ disk = [a \in AgentIds |-> AbsentFile]
    /\ tmp = [a \in AgentIds |-> AbsentFile]
    /\ dirs = {}
    /\ expf = AbsentFile
    /\ res = Result("init", TRUE, 0)
    /\ pc = [t \in Threads |-> "idle"]
    /\ loc = [t \in Threads |-> NoLoc]
    /\ cloned = {}
    /\ mgr = ClassManager

NextMgr ==
    \/ \E arg \in ManagerArgs : Construct(arg)
    \/ /\ mgr.initialized
       /\ \/ \E a \in AgentIds : GetAgent(a, TRUE)
          \/ \E a \in AgentIds, d \in ImpDataInputs : AddData(agents[a], d)
          \/ ListAgents

SpecMgr == InitMgr /\ [][NextMgr]_vars


\* ---------------------------------- the handles the registry gives out, SpecHand

\* SpecHand: callers keep every handle get_agent and create_agent returned
\* and use it; idle agents are unloaded; nothing is deleted.
NextHand ==
    \/ \E a \in AgentIds : GetAgent(a, TRUE)
    \/ \E a \in AgentIds, ow \in BOOLEAN : CreateAgent(a, ow, TRUE)
    \/ \E o \in ObjIds, d \in RegDataInputs : AddData(o, d)
    \/ \E mt \in [AgentIds -> Times], h \in 0..MaxIdleHours : CleanupUnused(mt, Now, h)
    \/ Restart

SpecHand == Init /\ [][NextHand]_vars


\* ------------------------------------- the provider's call failing, SpecProv

\* Mutant: the handlers record and save before they call the provider.
provider_last == FALSE

\* "result = super().add_tool(api)" is the first statement of add_tool, and
\* likewise in add_data and add_software.
provider_first == TRUE

\* What a handler has done when the provider's call raises out of it.
ProviderRaised(op, o, c) ==
    /\ IF provider_first THEN UNCHANGED <<obj, disk, tmp>> ELSE Store(o, OnDisk(c))
    /\ res' = Result(op, FALSE, 0)
    /\ UNCHANGED <<agents, dirs, expf, pc, loc, cloned, mgr>>

\* add_tool(api) with a provider whose add_tool raises or returns.
AddToolCall(o, t, raises) ==
    IF raises
    THEN o \in ObjIds /\ Live(o) /\ ProviderRaised("add_tool", o, add_tool(obj[o], t.name, t.f))
    ELSE AddTool(o, t)

\* add_data(data), likewise
AddDataCall(o, d, raises) ==
    IF raises
    THEN o \in ObjIds /\ Live(o) /\ ProviderRaised("add_data", o, add_data(obj[o], d))
    ELSE AddData(o, d)

\* add_software(software, install), likewise
AddSoftwareCall(o, s, install, raises) ==
    IF raises
    THEN o \in ObjIds /\ Live(o) /\ ProviderRaised("add_software", o, add_software(obj[o], s))
    ELSE AddSoftware(o, s, install, {})

NextProv ==
    \/ \E au \in BOOLEAN : GetAgent("A", au)
    \/ \E t \in SaveToolInputs, p \in BOOLEAN : AddToolCall(agents["A"], t, p)
    \/ \E d \in DataInputs, p \in BOOLEAN : AddDataCall(agents["A"], d, p)
    \/ \E s \in SoftInputs, i \in BOOLEAN, p \in BOOLEAN :
           AddSoftwareCall(agents["A"], s, i, p)
    \/ Restart

SpecProv == Init /\ [][NextProv]_vars


\* ------------------------------------------------------------------ claims

\* The names of the capabilities and the two reference maps of a container,
\* what list_custom_tools and list_custom_data show.
Content(c) == <<DOMAIN c.tools, c.data, c.sw>>

\* C1: a save interrupted at any point (or failing) never leaves an
\* unparsable state file, and the state file changes only by the rename of a
\* completely written temporary file: a load after the crash sees the
\* previously saved state or no file.
C1_SaveAtomic ==
    /\ [](\A a \in AgentIds : disk[a].st # "bad")
    /\ [][\A a \in AgentIds :
            disk'[a] # disk[a] =>
                \E t \in Threads :
                    /\ pc[t] = "s_replace" /\ pc'[t] = "s_clear"
                    /\ loc[t].aid = a
                    /\ JsonDumps(loc[t].snap)
                    /\ disk'[a] = loc[t].snap]_vars

\* A crash came after the temporary file was opened and before the rename,
\* with an earlier state file in place.
C1_Witness ==
    /\ res.op = "crash"
    /\ tmp["A"].st = "bad"
    /\ disk["A"].st = "ok"


\* C2: with auto-persist on, what get_agent loads after a restart equals the
\* in-memory state the container had when the process ended.
C2_RoundTrip ==
    [][\A a \in AgentIds :
          (res'.op = "restart" /\ agents[a] # 0 /\ obj[agents[a]].auto) =>
              Content(NewContainer(a, TRUE, disk'[a])) = Content(obj[agents[a]])]_vars

\* C3: every caller whose get_agent has returned holds the container the
\* live map holds, and one process constructs one container per agent id.
C3_OneContainer ==
    /\ \A t \in Threads :
          (pc[t] = "done" /\ loc[t].op = "get_agent") => loc[t].ret = agents[loc[t].aid]
    /\ \A a \in AgentIds : Cardinality({o \in ObjIds : obj[o].aid = a}) <= 1

\* What a returned add call put in: present in the container and in the
\* state file.
Added(l, c, file) ==
    /\ file.st = "ok"
    /\ IF l.attr = "tools"
       THEN DOMAIN l.arg \subseteq (DOMAIN c.tools) \cap (DOMAIN file.tools)
       ELSE \A k \in DOMAIN l.arg :
               /\ k \in (DOMAIN c.data) \cap (DOMAIN file.data)
               /\ c.data[k] = l.arg[k] /\ file.data[k] = l.arg[k]

\* C4: once two concurrent add calls on one container have both returned,
\* the container and the state file hold both additions.
C4_NoLostUpdate ==
    (\A t \in Threads : pc[t] = "done" /\ loc[t].op = "add") =>
        \A t \in Threads : Added(loc[t], obj[loc[t].o], disk[loc[t].aid])

\* C5: no two saves of one agent id are between open and rename at the same
\* time, and the state file is complete whenever it is read.
C5_SingleWriter ==
    /\ \A t \in Threads, u \in Threads :
          (t # u /\ loc[t].aid = loc[u].aid) =>
              ~(pc[t] \in {"s_write", "s_replace"} /\ pc[u] \in {"s_write", "s_replace"})
    /\ \A a \in AgentIds : disk[a].st # "bad"

\* C6: import_state(merge=True) leaves the union of the container's entries
\* and the snapshot's, the snapshot's winning; merge=False leaves exactly
\* the snapshot's entries; for capabilities, data and software alike.
C6_MergeReplace ==
    [][\A o \in ObjIds :
          (o = agents["A"] /\ res'.ok /\ res'.op \in {"import_merge", "import_replace"}) =>
              LET c == obj[o]
                  d == obj'[o]
                  m == res'.op = "import_merge"
              IN  /\ DOMAIN d.tools = IF m THEN (DOMAIN c.tools) \cup (DOMAIN expf.tools)
                                      ELSE DOMAIN expf.tools
                  /\ \A n \in (DOMAIN expf.tools) \cap (DOMAIN d.tools) :
                        expf.tools[n].method # "metadata_only" =>
                            d.tools[n].ver = expf.tools[n].ver
                  /\ d.data = IF m THEN Update(c.data, expf.data) ELSE expf.data
                  /\ d.sw = IF m THEN Update(c.sw, expf.sw) ELSE expf.sw]_vars

\* A call that adds or removes a capability, data or software reference
\* on container o.
Mutation(o) ==
    \/ \E f \in CloneToolInputs : AddTool(o, f)
    \/ \E d \in CloneDataInputs : AddData(o, d)
    \/ \E w \in SoftInputs : AddSoftware(o, w, FALSE, {})
    \/ \E n \in ToolNames : RemoveTool(o, n)

\* C7: after clone_agent(s, t), a mutation of one of the two agents leaves
\* the other's capabilities, data references, software references and state
\* file unchanged.
C7_CloneIndependent ==
    [][\A p \in cloned : \A m \in {p[1], p[2]}, k \in {p[1], p[2]} :
          (m # k /\ agents[m] # 0 /\ Mutation(agents[m])) =>
              /\ disk'[k] = disk[k]
              /\ agents[k] # 0 =>
                    /\ agents'[k] = agents[k]
                    /\ obj'[agents[k]].tools = obj[agents[k]].tools
                    /\ obj'[agents[k]].data = obj[agents[k]].data
                    /\ obj'[agents[k]].sw = obj[agents[k]].sw]_vars

C7_Witness ==
    /\ <<"A", "B">> \in cloned
    /\ agents["A"] # 0 /\ agents["B"] # 0
    /\ res.op = "add_data"
    /\ obj[agents["A"]].data # obj[agents["B"]].data
    /\ disk["A"].data # disk["B"].data

\* The in-memory state of the source of clone_agent(s, .) at the call: the
\* live container's, or the one get_agent loads.
SourceAtCall(s) == IF agents[s] # 0 THEN obj[agents[s]] ELSE NewContainer(s, TRUE, disk[s])

\* C8: when clone_agent(s, t) returns, the target is registered under t and
\* holds the capability names, data and software references the source held
\* at the call.
C8_CloneFullCopy ==
    [][\A s \in AgentIds, t \in AgentIds :
          (CloneAgent(s, t) /\ res'.ok) =>
              /\ agents'[t] # 0
              /\ Content(obj'[agents'[t]]) = Content(SourceAtCall(s))]_vars

\* C9: clone_agent of a source that is neither live nor on disk fails and
\* creates no container, registry entry, file or directory.
C9_CloneMissingSource ==
    [][\A s \in AgentIds, t \in AgentIds :
          (agents[s] = 0 /\ disk[s].st = "absent" /\ s \notin dirs /\ CloneAgent(s, t)) =>
              /\ ~res'.ok
              /\ obj' = obj /\ agents' = agents /\ disk' = disk /\ dirs' = dirs]_vars

\* C10: save_state and the save at the end of import_state write the
\* in-memory state to the state file whether auto_save is on or off.
C10_ExplicitSave ==
    [][\A o \in ObjIds :
          (o = agents["A"] /\ res'.ok /\
           res'.op \in {"save_state", "import_merge", "import_replace"}) =>
              disk'[obj'[o].aid] = StateDict(obj'[o])]_vars

SavedNow(o) ==
    /\ obj'[o].auto
    /\ JsonDumps(StateDict(obj'[o]))
    /\ disk'[obj'[o].aid] = StateDict(obj'[o])

\* The step was a mutating call on container o: an add that returned, or
\* a remove or an import that changed what the container holds.
MutatedNow(o) ==
    /\ res'.ok
    /\ \/ res'.op \in {"add_tool", "add_data", "add_software"}
       \/ /\ res'.op \in {"remove_tool", "remove_data", "import_merge", "import_replace"}
          /\ Content(obj'[o]) # Content(obj[o])

\* C12: every mutating call leaves the container dirty unless a save
\* succeeded in it, and the dirty flag is cleared only by a save that
\* succeeded.
C12_DirtyClean ==
    [][\A o \in ObjIds :
          (o = agents["A"] /\ agents'["A"] = o) =>
              /\ MutatedNow(o) => (obj'[o].dirty \/ SavedNow(o))
              /\ (obj[o].dirty /\ ~obj'[o].dirty) => SavedNow(o)]_vars

\* Container o is a handle to an agent the registry deleted with its
\* files: not in the live map, no state file, no directories.
DeletedHandle(o) ==
    /\ Live(o)
    /\ agents[obj[o].aid] = 0
    /\ disk[obj[o].aid].st = "absent"
    /\ obj[o].aid \notin dirs

\* C13: a container call never deletes an agent, and a call on a handle to
\* an agent deleted with its files neither recreates the state file nor
\* brings the agent id back into list_agents.
C13_DeletedTerminal ==
    [][\A o \in ObjIds :
          (res'.op = "add_data" /\ \E d \in RegDataInputs : AddData(o, d)) =>
              /\ agents' = agents
              /\ disk[obj[o].aid].st = "ok" => disk'[obj[o].aid].st = "ok"
              /\ DeletedHandle(o) =>
                    /\ disk'[obj[o].aid].st = "absent"
                    /\ obj[o].aid \notin list_agents']_vars

\* C14: with auto_save on, when an add, or a remove that found its entry,
\* returns, the state file exists and holds the capability names, data and
\* software references the container holds.
C14_AutoPersist ==
    [][\A o \in ObjIds :
          (/\ o = agents["A"] /\ agents'["A"] = o
           /\ obj[o].auto
           /\ MutatedNow(o)
           /\ res'.op \in {"add_tool", "add_data", "add_software",
                           "remove_tool", "remove_data"}) =>
              /\ disk'["A"].st = "ok"
              /\ DOMAIN disk'["A"].tools = DOMAIN obj'[o].tools
              /\ disk'["A"].data = obj'[o].data
              /\ disk'["A"].sw = obj'[o].sw]_vars

\* C15: list_agents returns exactly the agent ids that are in the live map
\* or have a state file, live or not, saved or not.
C15_ListComplete ==
    res.op = "list_agents" =>
        res.val = {a \in AgentIds : agents[a] # 0 \/ disk[a].st # "absent"}

C15_Witness ==
    /\ res.op = "list_agents"
    /\ agents["A"] = 0 /\ disk["A"].st = "ok"
    /\ agents["B"] # 0 /\ disk["B"].st = "absent"
    /\ res.val = {"A", "B"}

\* C16: delete_agent(a, remove_files) takes a out of the live map; with
\* remove_files it removes a's state file and directories, without it no
\* file changes; the other agents' entries and files and every container
\* stay as they were.
C16_DeleteFrame ==
    [][\A a \in AgentIds, rf \in BOOLEAN :
          (res'.op = "delete_agent" /\ DeleteAgent(a, rf)) =>
              /\ agents'[a] = 0
              /\ rf => (disk'[a].st = "absent" /\ a \notin dirs')
              /\ ~rf => (disk' = disk /\ dirs' = dirs /\ tmp' = tmp)
              /\ \A b \in AgentIds \ {a} :
                    /\ agents'[b] = agents[b]
                    /\ disk'[b] = disk[b] /\ tmp'[b] = tmp[b]
                    /\ (b \in dirs') = (b \in dirs)
              /\ obj' = obj]_vars

C16_Witness ==
    /\ res.op = "delete_agent"
    /\ agents["A"] = 0 /\ disk["A"].st = "absent" /\ "A" \notin dirs
    /\ \E o \in ObjIds : obj[o].aid = "A" /\ obj[o].auto /\ obj[o].data # EmptyMap
    /\ agents["B"] # 0 /\ disk["B"].st = "ok" /\ "B" \in dirs

\* C17: get_agent for an agent id that is live returns the container the
\* live map holds, constructs nothing and leaves the container as it was,
\* whatever keyword arguments it is given.
C17_GetLive ==
    [][\A a \in AgentIds, au \in BOOLEAN :
          (res'.op = "get_agent" /\ agents[a] # 0 /\ GetAgent(a, au)) =>
              /\ res'.val = agents[a]
              /\ obj' = obj
              /\ agents' = agents]_vars

C17_Witness ==
    /\ res.op = "get_agent"
    /\ agents["A"] # 0 /\ res.val = agents["A"]
    /\ obj[agents["A"]].dirty
    /\ ~obj[agents["A"]].auto

\* C18: an agent id that get_agent has returned a container for has its
\* state file on disk, complete, at all times.
C18_OneStateFile ==
    \A a \in AgentIds : agents[a] # 0 => disk[a].st = "ok"

\* C19: while an agent's state file does not parse, constructing its
\* container reports the failure to the caller, and nothing but
\* delete_agent changes the file.
C19_CorruptKept ==
    [][\A a \in AgentIds :
          disk[a].st = "bad" =>
              /\ (res'.op \in {"get_agent", "create_agent"}
                     /\ agents[a] = 0 /\ agents'[a] # 0) => ~res'.ok
              /\ res'.op # "delete_agent" => disk'[a] = disk[a]]_vars

\* The names of the stored capability records that do not decode.
Undecodable(file) ==
    {n \in DOMAIN file.tools : deserialize_function(file.tools[n]) = NoFunc}

\* C20: a stored capability record that does not decode is listed by the
\* container loaded from the file and is still in the state file after
\* later calls and saves (other than removing or replacing it).
C20_UndecodableKept ==
    [][/\ (res'.op = "get_agent" /\ agents["A"] = 0 /\ agents'["A"] # 0) =>
              Undecodable(disk["A"]) \subseteq DOMAIN obj'[agents'["A"]].tools
       /\ res'.op \in {"add_tool", "add_data", "remove_data", "save_state", "import_merge"} =>
              Undecodable(disk["A"]) \subseteq DOMAIN disk'["A"].tools]_vars

\* C21: get_agent_summary gives the live container's own summary; for an
\* agent that is not live but has a state file, the counts of that file,
\* without constructing or registering a container; None when the agent
\* is neither live nor on disk.
C21_Summary ==
    [][\A a \in AgentIds :
          (res'.op = "get_agent_summary" /\ GetAgentSummary(a)) =>
              /\ agents[a] # 0 =>
                     res'.val = get_state_summary(obj[agents[a]], disk[a])
              /\ (agents[a] = 0 /\ disk[a].st # "absent") =>
                     /\ res'.val # NoSummary
                     /\ res'.val.agent_id = a
                     /\ obj' = obj /\ agents' = agents
              /\ (agents[a] = 0 /\ disk[a].st = "ok") =>
                     /\ res'.val.custom_tools_count = Cardinality(DOMAIN disk[a].tools)
                     /\ res'.val.custom_data_count = Cardinality(DOMAIN disk[a].data)
                     /\ res'.val.custom_software_count = Cardinality(DOMAIN disk[a].sw)
              /\ (agents[a] = 0 /\ disk[a].st = "absent") => res'.val = NoSummary]_vars

\* C22: cleanup_unused_agents removes from the live map exactly the agents
\* whose state file was last modified more than max_idle_hours ago,
\* returns how many it removed and changes no file; no call but it,
\* delete_agent and the end of the process takes an agent out of the map.
C22_CleanupIdle ==
    [][/\ res'.op = "cleanup" =>
              \A mt \in [AgentIds -> Times], h \in 0..MaxIdleHours :
                  CleanupUnused(mt, Now, h) =>
                  LET old == {a \in AgentIds : /\ agents[a] # 0
                                               /\ disk[a].st # "absent"
                                               /\ Now - mt[a] > h * SecondsPerHour}
                  IN  /\ \A a \in AgentIds :
                            agents'[a] = IF a \in old THEN 0 ELSE agents[a]
                      /\ res'.val = Cardinality(old)
                      /\ UNCHANGED <<obj, disk, tmp, dirs, expf>>
       /\ res'.op \notin {"cleanup", "delete_agent", "restart"} =>
              \A a \in AgentIds : agents[a] # 0 => agents'[a] = agents[a]]_vars

C22_Witness ==
    /\ res.op = "cleanup" /\ res.val = 1
    /\ agents["A"] = 0 /\ disk["A"].st = "ok"
    /\ agents["B"] # 0 /\ disk["B"].st = "ok"

\* Calling g gives what calling f gives, for every argument.
SameOutput(f, g) == g.ver = f.ver /\ g.kind \notin {"none", "raised", "unbound"}

C25_SourceRoundTrip ==
    (res.op = "round_trip" /\ res.val.f.kind \in {"source", "global"}) =>
        /\ res.val.r.method = "source_code"
        /\ SameOutput(res.val.f, res.val.g)

\* C26: deserialize_function of a metadata_only record is None, and no tool
\* a container restores from a state file or an imported file comes from
\* a metadata_only record.
C26_MetadataNeverDecodes ==
    [][/\ \A n \in DOMAIN disk["A"].tools :
              disk["A"].tools[n].method = "metadata_only" =>
                  deserialize_function(disk["A"].tools[n]) = NoFunc
       /\ (res'.op = "get_agent" /\ agents["A"] = 0 /\ agents'["A"] # 0) =>
              \A n \in DOMAIN obj'[agents'["A"]].tools :
                  /\ n \in DOMAIN disk["A"].tools
                  /\ disk["A"].tools[n].method # "metadata_only"
       /\ (res'.op \in {"import_merge", "import_replace"} /\ res'.ok) =>
              \A n \in DOMAIN obj'[agents["A"]].tools :
                  (n \in DOMAIN expf.tools /\ expf.tools[n].method = "metadata_only") =>
                      /\ res'.op = "import_merge"
                      /\ n \in DOMAIN obj[agents["A"]].tools
                      /\ obj'[agents["A"]].tools[n] = obj[agents["A"]].tools[n]]_vars

C26_Witness ==
    /\ res.op = "get_agent" /\ agents["A"] # 0
    /\ "z" \in DOMAIN disk["A"].tools
    /\ disk["A"].tools["z"].method = "metadata_only"
    /\ DOMAIN obj[agents["A"]].tools = {"x"}
    /\ ~obj[agents["A"]].dirty

\* C27: deserialize_function of a source_code record returns the callable
\* bound to the recorded name by the text, None when the text is empty,
\* binds no callable to the name or fails to run, and never raises.
C27_SourceFailsClosed ==
    (res.op = "decode" /\ res.val.r.method = "source_code") =>
        /\ res.ok
        /\ res.val.r.payload \in {"empty", "other_name", "raises", "exits", "indented"} =>
               res.val.g = NoFunc
        /\ res.val.r.payload \in {"def", "free"} => res.val.g.ver = res.val.r.ver

\* The entries of m other than those with a key in ks.
Others(m, ks) == [k \in (DOMAIN m) \ ks |-> m[k]]

\* C28: after add_tool, add_data and add_software the entry of each added
\* name or key is the one just passed, every other entry of the three
\* in-memory sets is as before, and the call returns what the provider's
\* registration call returned.
C28_LastWriteWins ==
    [][LET o == agents["A"]
       IN  /\ res'.op = "add_tool" =>
                  \A t \in ExtToolInputs :
                      AddTool(o, t) =>
                          /\ obj'[o].tools[t.name] = t.f
                          /\ Others(obj'[o].tools, {t.name}) = Others(obj[o].tools, {t.name})
                          /\ obj'[o].data = obj[o].data /\ obj'[o].sw = obj[o].sw
                          /\ res'.ok /\ res'.val = super_result("add_tool")
           /\ res'.op = "add_data" =>
                  \A d \in DataInputs :
                      AddData(o, d) =>
                          /\ \A k \in DOMAIN d : obj'[o].data[k] = d[k]
                          /\ Others(obj'[o].data, DOMAIN d) = Others(obj[o].data, DOMAIN d)
                          /\ obj'[o].tools = obj[o].tools /\ obj'[o].sw = obj[o].sw
                          /\ res'.ok /\ res'.val = super_result("add_data")
           /\ res'.op = "add_software" =>
                  \A s \in ExtSoftInputs, i \in BOOLEAN : \A fl \in SUBSET (DOMAIN s) :
                      AddSoftware(o, s, i, fl) =>
                          /\ \A k \in DOMAIN s : obj'[o].sw[k] = s[k]
                          /\ Others(obj'[o].sw, DOMAIN s) = Others(obj[o].sw, DOMAIN s)
                          /\ obj'[o].tools = obj[o].tools /\ obj'[o].data = obj[o].data
                          /\ res'.ok /\ res'.val.ret = super_result("add_software")]_vars

C28_Witness ==
    /\ res.op = "add_data" /\ agents["A"] # 0
    /\ obj[agents["A"]].data = Single("d1", "v")
    /\ disk["A"].st = "ok" /\ disk["A"].data = Single("d1", "u")
    /\ DOMAIN obj[agents["A"]].tools = {"x", "z"}
    /\ DOMAIN obj[agents["A"]].sw = {"s1", "s2"}

\* C29: remove_custom_tool and remove_custom_data delete the named entry
\* and no other when it is there, and the state file then holds the new
\* sets if auto_save is on; when the entry is not there, the in-memory
\* sets, the dirty flag and the state file stay as they are and the call
\* returns normally.
C29_Remove ==
    [][LET o == agents["A"]
       IN  /\ \A n \in ToolNames :
                  (res'.op = "remove_tool" /\ RemoveTool(o, n)) =>
                      /\ res'.ok
                      /\ IF n \in DOMAIN obj[o].tools
                         THEN /\ obj'[o].tools = Del(obj[o].tools, n)
                              /\ obj'[o].data = obj[o].data /\ obj'[o].sw = obj[o].sw
                              /\ obj[o].auto =>
                                     /\ disk'["A"].st = "ok"
                                     /\ DOMAIN disk'["A"].tools = DOMAIN obj'[o].tools
                                     /\ disk'["A"].data = obj'[o].data
                         ELSE obj' = obj /\ disk' = disk
           /\ \A k \in DataKeys :
                  (res'.op = "remove_data" /\ RemoveData(o, k)) =>
                      /\ res'.ok
                      /\ IF k \in DOMAIN obj[o].data
                         THEN /\ obj'[o].data = Del(obj[o].data, k)
                              /\ obj'[o].tools = obj[o].tools /\ obj'[o].sw = obj[o].sw
                              /\ obj[o].auto =>
                                     /\ disk'["A"].st = "ok"
                                     /\ DOMAIN disk'["A"].tools = DOMAIN obj'[o].tools
                                     /\ disk'["A"].data = obj'[o].data
                         ELSE obj' = obj /\ disk' = disk]_vars

\* C30: add_software with install=True returns normally whichever
\* installations fail, every name passed is recorded in memory and, with
\* auto_save on, in the state file; with install=False the package manager
\* is never run.
C30_InstallNonFatal ==
    [][LET o == agents["A"]
       IN  res'.op = "add_software" =>
              \A s \in ExtSoftInputs, i \in BOOLEAN : \A fl \in SUBSET (DOMAIN s) :
                AddSoftware(o, s, i, fl) =>
                  /\ res'.ok
                  /\ \A k \in DOMAIN s : obj'[o].sw[k] = s[k]
                  /\ obj[o].auto =>
                         /\ disk'["A"].st = "ok"
                         /\ \A k \in DOMAIN s :
                                k \in DOMAIN disk'["A"].sw /\ disk'["A"].sw[k] = s[k]
                  /\ ~i => res'.val.env.attempted = {}]_vars

\* The document without the state dict's timestamp field.
SansTimestamp(doc) == [doc EXCEPT !.timestamp = 0]

\* C31: two consecutive saves of one container, with no mutation between
\* them, write documents that are equal in every field but the timestamp.
C31_SaveIdempotent ==
    [][(/\ res.op = "save_state" /\ res.val # NoDoc
        /\ res'.op = "save_state" /\ res'.val # NoDoc)
       => SansTimestamp(res'.val) = SansTimestamp(res.val)]_vars

\* C32: import_state takes any parsable export whatever agent id it records,
\* and leaves the importing container's agent id and state file where they
\* were: it writes only that container's own files, and the document it
\* writes carries the container's id. No handler changes the agent id of a
\* container.
C32_ImportKeepsId ==
    [][/\ res'.op \in {"import_merge", "import_replace"} =>
              \A a \in AgentIds, m \in BOOLEAN :
                  ImportState(agents[a], m) =>
                      /\ res'.ok = (expf.st = "ok")
                      /\ obj'[agents[a]].aid = a
                      /\ \A b \in AgentIds \ {a} :
                            disk'[b] = disk[b] /\ tmp'[b] = tmp[b]
                      /\ disk'[a].st = "ok" => disk'[a].agent_id = a
       /\ res'.op # "restart" =>
              \A o \in ObjIds : Live(o) => obj'[o].aid = obj[o].aid]_vars

\* B has replaced its sets by the export of A, which still differs from
\* what A holds now.
C32_Witness ==
    /\ res.op = "import_replace" /\ res.ok
    /\ expf.st = "ok" /\ expf.agent_id = "A"
    /\ agents["A"] # 0 /\ agents["B"] # 0
    /\ obj[agents["B"]].aid = "B"
    /\ obj[agents["B"]].data = expf.data /\ DOMAIN expf.data = {"d1"}
    /\ obj[agents["A"]].data # expf.data
    /\ disk["B"].st = "ok" /\ disk["B"].agent_id = "B" /\ disk["B"].data = expf.data

\* C33: every construction of the registry returns the one instance with the
\* one live map; the first construction fixes the base directory and a later
\* one leaves it, whatever directory it is given.
C33_Singleton ==
    [][res'.op = "construct" =>
          /\ res'.ok
          /\ res'.val = mgr'.instance /\ mgr'.instance # 0
          /\ mgr.instance # 0 => mgr' = mgr
          /\ agents' = agents]_vars

\* C34: between handlers, a container whose dirty flag is false and whose
\* state file exists holds what the file holds: the same capability names,
\* data references and software references.
C34_CleanMeansSaved ==
    \A o \in ObjIds :
        (Live(o) /\ ~obj[o].dirty /\ disk[obj[o].aid].st = "ok") =>
            /\ DOMAIN disk[obj[o].aid].tools = DOMAIN obj[o].tools
            /\ disk[obj[o].aid].data = obj[o].data
            /\ disk[obj[o].aid].sw = obj[o].sw

\* C35: with no delete, the containers of one process that carry one agent
\* id are at most one: every handle the registry returned for the id is the
\* same object.
C35_OneHandle ==
    \A a \in AgentIds : Cardinality({o \in ObjIds : obj[o].aid = a}) <= 1

\* What a call of the callable does: the code that runs, and whether the
\* call fails for a name that is not there.
Behaviour(f) == [ver |-> f.ver, fails |-> f.kind = "unbound"]

\* C36: deserialize_function(serialize_function(c)) is None or a callable
\* that behaves as c does; for a nested function that dill cannot
\* serialize it is None.
C36_RoundTripSound ==
    res.op = "round_trip" =>
        /\ res.ok
        /\ res.val.g = NoFunc \/ Behaviour(res.val.g) = Behaviour(res.val.f)
        /\ res.val.f.kind = "nested" => res.val.g = NoFunc

\* The three counts of a summary.
Counts(s) == <<s.custom_tools_count, s.custom_data_count, s.custom_software_count>>

\* C37: when get_agent_summary has answered from the state file of an agent
\* that is not live and get_agent then loads that agent, the summary of the
\* loaded container has the same three counts.
C37_SummaryAgrees ==
    [][(res.op = "get_agent_summary" /\ res'.op = "get_agent") =>
          \A a \in AgentIds :
              (/\ res.val = file_summary(a, disk[a])
               /\ agents[a] = 0 /\ disk[a].st = "ok"
               /\ GetAgent(a, TRUE))
              => Counts(get_state_summary(obj'[agents'[a]], disk'[a])) = Counts(res.val)]_vars

\* The save that follows a mutation to c is attempted and raises.
SaveFails(c) == c.auto /\ ~JsonDumps(StateDict(c))

\* The call on o returned normally, o is c (the mutated container, dirty)
\* and every state file is as before.
Kept(o, c) == res'.ok /\ obj'[o] = c /\ c.dirty /\ disk' = disk

\* C38: when the save inside add_tool, add_data, remove_custom_tool or
\* remove_custom_data fails, the call still returns normally, the container
\* holds the mutation and stays dirty, and the state file is untouched; a
\* save that succeeds afterwards writes what the container then holds.
C38_FailedSaveKept ==
    [][LET o == agents["A"]
       IN  /\ res'.op = "add_tool" =>
                  \A t \in SaveToolInputs :
                      (AddTool(o, t) /\ SaveFails(add_tool(obj[o], t.name, t.f)))
                      => Kept(o, add_tool(obj[o], t.name, t.f))
           /\ res'.op = "add_data" =>
                  \A d \in DataInputs :
                      (AddData(o, d) /\ SaveFails(add_data(obj[o], d)))
                      => Kept(o, add_data(obj[o], d))
           /\ res'.op = "remove_tool" =>
                  \A n \in ToolNames :
                      (/\ RemoveTool(o, n)
                       /\ obj[o].hasTools /\ n \in DOMAIN obj[o].tools
                       /\ SaveFails(remove_custom_tool(obj[o], n)))
                      => Kept(o, remove_custom_tool(obj[o], n))
           /\ res'.op = "remove_data" =>
                  \A k \in DataKeys :
                      (/\ RemoveData(o, k)
                       /\ obj[o].hasData /\ k \in DOMAIN obj[o].data
                       /\ SaveFails(remove_custom_data(obj[o], k)))
                      => Kept(o, remove_custom_data(obj[o], k))
           /\ res'.op \in {"save_state", "remove_tool"} =>
                  ((/\ obj[o].dirty /\ obj[o].auto
                    /\ Content(obj'[o]) # Content(obj[o]) \/ res'.op = "save_state"
                    /\ JsonDumps(StateDict(obj'[o])))
                   => /\ ~obj'[o].dirty
                      /\ disk'["A"] = StateDict(obj'[o]))]_vars

\* add_data has just returned with d1 in the container, which holds an
\* annotated tool and is dirty; the state file is the one saved before and
\* has neither.
C38_Witness ==
    /\ res.op = "add_data" /\ res.ok
    /\ agents["A"] # 0
    /\ obj[agents["A"]].auto /\ obj[agents["A"]].dirty
    /\ "d1" \in DOMAIN obj[agents["A"]].data
    /\ "z" \in DOMAIN obj[agents["A"]].tools
    /\ obj[agents["A"]].tools["z"].kind = "annot"
    /\ disk["A"].st = "ok"
    /\ DOMAIN disk["A"].tools = {"x"} /\ disk["A"].data = EmptyMap

\* C39: when the provider's registration call raises inside add_tool,
\* add_data or add_software, the call fails and the container, its dirty
\* flag, its state file and its temporary file are as before; a call that
\* returns gives back what the provider returned.
C39_ProviderFirst ==
    [][LET o == agents["A"]
           Untouched == ~res'.ok /\ obj' = obj /\ disk' = disk /\ tmp' = tmp
       IN  /\ res'.op = "add_tool" =>
                  /\ \A t \in SaveToolInputs : AddToolCall(o, t, TRUE) => Untouched
                  /\ res'.ok => res'.val = super_result("add_tool")
           /\ res'.op = "add_data" =>
                  /\ \A d \in DataInputs : AddDataCall(o, d, TRUE) => Untouched
                  /\ res'.ok => res'.val = super_result("add_data")
           /\ res'.op = "add_software" =>
                  /\ \A s \in SoftInputs, i \in BOOLEAN :
                         AddSoftwareCall(o, s, i, TRUE) => Untouched
                  /\ res'.ok => res'.val.ret = super_result("add_software")
           /\ (res'.op \in {"add_tool", "add_data", "add_software"} /\ ~res'.ok) =>
                  (obj' = obj /\ disk' = disk /\ tmp' = tmp)]_vars

\* The provider refused a data reference for a saved, clean container:
\* neither the container nor its file has it.
C39_Witness ==
    /\ res.op = "add_data" /\ ~res.ok
    /\ agents["A"] # 0
    /\ ~obj[agents["A"]].dirty /\ obj[agents["A"]].auto
    /\ obj[agents["A"]].data = EmptyMap
    /\ DOMAIN obj[agents["A"]].tools = {"x"}
    /\ disk["A"].st = "ok" /\ disk["A"].data = EmptyMap

====
